---- MODULE Spec2Model ----
(***************************************************************************)
(* A model of collada/animation.py: Animation.load and the loaders it      *)
(* calls (Sampler.load, Input.load, Channel.load), run over one            *)
(* <animation> tree by a single depth-first pass.                          *)
(*                                                                         *)
(* The document is read as the pass goes: each step picks the next child   *)
(* element of the node being loaded (a <source>, <sampler>, <channel> or   *)
(* nested <animation>) from a small alphabet and records it in doc, so     *)
(* that every property can compare what the pass built (anim, heap) with   *)
(* what the document said (doc).  node.findall(tag) returns the children   *)
(* with one tag in document order, so the four per-tag lists of a node are *)
(* independent of one another and are drawn stage by stage.                *)
(*                                                                         *)
(* Strings are sequences of characters, so that source[1:] is computed.    *)
(* An attribute is <<>> when absent and <<s>> when present with value s.   *)
(* The id and name attributes of <animation> are copied to the object and  *)
(* read by nothing else; they are left out.                                *)
(***************************************************************************)
EXTENDS Naturals, Sequences, FiniteSets, TLC

\* ------------------------------------------------------------------------
\* Bounds of the explored documents: the child elements (<source>,
\* <sampler>, <channel> and nested <animation>) of a whole document
\* ------------------------------------------------------------------------
\* in the documents that vary the tree and its <source> declarations
MaxScopeElements == 5
\* in the documents that vary the <sampler> and <channel> elements
MaxUnitElements == 3

\* ------------------------------------------------------------------------
\* Strings and attributes
\* ------------------------------------------------------------------------
Absent == <<>>

Attr(s) == <<s>>

\* Python truthiness of node.get(name): None and '' are false
Falsy(a) == a = Absent \/ a[1] = <<>>

\* s[1:]
Strip(s) == IF Len(s) = 0 THEN <<>> ELSE SubSeq(s, 2, Len(s))

\* node.get('id') or ''
IdOrEmpty(a) == IF Falsy(a) THEN <<>> ELSE a[1]

\* ------------------------------------------------------------------------
\* dict: insertion-ordered sequence of [key, val]
\* ------------------------------------------------------------------------
Has(d, k) == \E i \in 1..Len(d) : d[i].key = k

Get(d, k) == d[CHOOSE i \in 1..Len(d) : d[i].key = k].val

Keys(d) == {d[i].key : i \in 1..Len(d)}

Values(d) == [i \in 1..Len(d) |-> d[i].val]

SetItem(d, k, v) ==
    IF Has(d, k)
    THEN [i \in 1..Len(d) |-> IF d[i].key = k THEN [key |-> k, val |-> v] ELSE d[i]]
    ELSE Append(d, [key |-> k, val |-> v])

\* ------------------------------------------------------------------------
\* The alphabet of document elements
\* ------------------------------------------------------------------------
\* what source.Source.load does with a <source>: returns a Source with an
\* id, or raises DaeError
SourceReturns(i) == [ok |-> TRUE, id |-> i]

SourceRaises == [ok |-> FALSE, id |-> <<>>]

InputNode(semantic, source) == [semantic |-> semantic, source |-> source]

InA == InputNode(Attr(<<"INPUT">>), Attr(<<"#", "a">>))

InB == InputNode(Attr(<<"OUTPUT">>), Attr(<<"#", "b">>))

NoSemantic == InputNode(Absent, Attr(<<"#", "a">>))

NoSource == InputNode(Attr(<<"INPUT">>), Absent)

SamplerNode(id, inputs) == [id |-> id, inputs |-> inputs]

ChannelNode(source, target) == [source |-> source, target |-> target]

\* The documents explored are of two families, each with its own alphabet
\* and bound: one varies the tree and the <source> declarations and keeps
\* the samplers simple, the other varies the samplers and channels and
\* keeps the sources simple.
Families == {"scopes", "units"}

Alphabet(f) ==
    IF f = "scopes"
    THEN [elements |-> MaxScopeElements,
          sources  |-> {SourceReturns(<<"a">>), SourceReturns(<<"b">>), SourceRaises},
          samplers |-> {SamplerNode(Absent, <<InA>>), SamplerNode(Absent, <<InB>>),
                        SamplerNode(Absent, <<NoSemantic>>)},
          channels |-> {ChannelNode(Attr(<<"#">>), Attr(<<"t">>))}]
    ELSE [elements |-> MaxUnitElements,
          sources  |-> {SourceReturns(<<"a">>)},
          samplers |-> {SamplerNode(i, ins) :
                           i \in {Absent, Attr(<<"s">>)}, ins \in {<<>>, <<InA>>}}
                       \cup {SamplerNode(Attr(<<"s">>), ins) :
                           ins \in {<<NoSemantic>>, <<NoSource>>, <<InB>>, <<InA, InB>>}},
          channels |-> {ChannelNode(Attr(<<"#">>), Attr(<<"t">>)),
                        ChannelNode(Attr(<<"#", "s">>), Attr(<<"t">>)),
                        ChannelNode(Absent, Attr(<<"t">>)),
                        ChannelNode(Attr(<<"#", "s">>), Absent)}]

\* error policy of collada.handleError: return, or re-raise the error
Policies == {"continue", "raise"}

VARIABLES
    family,   \* the family of the document being read
    doc,      \* per node (numbered in the order their load starts): what was read
    anim,     \* per node: the Animation object its load returned, if it has
    heap,     \* the dict objects used as scopes, by address
    stack,    \* the frames of the active Animation.load calls, innermost last
    exc,      \* a DaeError is propagating out of the innermost frame
    outcome,  \* of the outermost Animation.load
    policy,   \* what handleError does
    calls,    \* calls of collada.handleError so far
    faults    \* DaeErrors raised so far inside some try block of Animation.load

vars == <<family, doc, anim, heap, stack, exc, outcome, policy, calls, faults>>


\* ------------------------------------------------------------------------
\* The loaders
\* ------------------------------------------------------------------------
Raised == [ok |-> FALSE]

Returned(v) == [ok |-> TRUE, val |-> v]

\* Input.load(collada, localscope, node)
InputLoad(localscope, node) ==
    IF Falsy(node.semantic) \/ Falsy(node.source)
    THEN Raised
    ELSE IF ~Has(localscope, Strip(node.source[1]))
         THEN Raised
         ELSE Returned([semantic |-> node.semantic[1],
                        source |-> Get(localscope, Strip(node.source[1]))])

\* Sampler.load that skips a faulty <input> instead of raising
SamplerLoadPartial(localscope, node, ref) ==
    LET loaded == [i \in 1..Len(node.inputs) |-> InputLoad(localscope, node.inputs[i])]
        kept == SelectSeq(loaded, LAMBDA r : r.ok)
    IN  Returned([id |-> IdOrEmpty(node.id),
                  inputs |-> [i \in 1..Len(kept) |-> kept[i].val],
                  ref |-> ref])

\* Sampler.load(collada, localscope, node); ref is the identity of the
\* Sampler object created
SamplerLoad(localscope, node, ref) ==
    LET loaded == [i \in 1..Len(node.inputs) |-> InputLoad(localscope, node.inputs[i])]
    IN  IF \E i \in 1..Len(node.inputs) : ~loaded[i].ok
        THEN Raised
        ELSE Returned([id |-> IdOrEmpty(node.id),
                       inputs |-> [i \in 1..Len(node.inputs) |-> loaded[i].val],
                       ref |-> ref])

\* Channel.load that looks the whole source attribute up, sigil included
ChannelLoadUnstripped(localscope, node, ref) ==
    IF Falsy(node.source) \/ Falsy(node.target)
    THEN Raised
    ELSE IF ~Has(localscope, node.source[1])
         THEN Raised
         ELSE Returned([source |-> Get(localscope, node.source[1]),
                        target |-> node.target[1],
                        ref |-> ref])

\* Channel.load(collada, localscope, node), localscope being the samplers
ChannelLoad(localscope, node, ref) ==
    IF Falsy(node.source) \/ Falsy(node.target)
    THEN Raised
    ELSE IF ~Has(localscope, Strip(node.source[1]))
         THEN Raised
         ELSE Returned([source |-> Get(localscope, Strip(node.source[1])),
                        target |-> node.target[1],
                        ref |-> ref])

\* sourcebyid = dict(localscope): a copy for each load
BindCopy(h, localscope) == [heap |-> Append(h, h[localscope]), addr |-> Len(h) + 1]

\* sourcebyid = localscope: the scope a load works on is the dict it was
\* given, not a copy
Bind(h, localscope) == [heap |-> h, addr |-> localscope]

\* sourcebyid.setdefault(ch.id, ch): an identifier already bound is kept
DeclareFirst(d, src) == IF Has(d, src.id) THEN d ELSE SetItem(d, src.id, src)

\* sourcebyid[ch.id] = ch
Declare(d, src) == SetItem(d, src.id, src)

\* samplers[sampler.id] = sampler
Keep(samplers, sampler) == SetItem(samplers, sampler.id, sampler)

\* an except clause that takes the sources of the failed child out again
ForgetChildSources(h, addr, child) ==
    [h EXCEPT ![addr] = SelectSeq(@, LAMBDA e : e.val.ref[1] # child)]

\* what the except clause around the load of a child leaves of the scope
AfterChildFailure(h, addr, child) == h

\* collada.handleError(ex) under a policy: does the error go on propagating
Reraises(p) == p = "raise"

\* Animation.load runs its four loops one after the other: <source>, then
\* <sampler>, then <channel>, then nested <animation>.  A loop may start
\* from any stage before its own (the earlier loops had nothing left).
SamplerStagesAny == {"sources", "samplers", "channels", "children"}

SamplerStages == {"sources", "samplers"}

ChannelStages == {"sources", "samplers", "channels"}

\* ------------------------------------------------------------------------
\* State
\* ------------------------------------------------------------------------
NewNode(parent) ==
    [parent |-> parent, sources |-> <<>>, samplers |-> <<>>, channels |-> <<>>]

NewFrame(n, addr) ==
    [node |-> n, stage |-> "sources", sourcebyid |-> addr,
     samplers |-> <<>>, channels |-> <<>>, children |-> <<>>]

Loading ==
    [status |-> "loading", sourceById |-> 0,
     samplers |-> <<>>, channels |-> <<>>, children |-> <<>>]

\* Animation(id, name, sourcebyid, list(samplers.values()), channels, children, node)
Animation(f) ==
    [status |-> "returned", sourceById |-> f.sourcebyid,
     samplers |-> Values(f.samplers), channels |-> f.channels,
     children |-> f.children]

RECURSIVE Total(_, _)
Total(field, n) ==
    IF n = 0 THEN 0
    ELSE Len(IF field = "sources" THEN doc[n].sources
             ELSE IF field = "samplers" THEN doc[n].samplers
             ELSE doc[n].channels) + Total(field, n - 1)

\* child elements read so far
Elements ==
    Total("sources", Len(doc)) + Total("samplers", Len(doc))
        + Total("channels", Len(doc)) + Len(doc) - 1

Top == stack[Len(stack)]

Running == stack # <<>> /\ ~exc

SetTop(f) == [stack EXCEPT ![Len(stack)] = f]

Pop == SubSeq(stack, 1, Len(stack) - 1)

\* the outermost call, given an empty scope, under either policy and for a
\* document of either family
Init ==
    LET b == Bind(<< <<>> >>, 1)
    IN  /\ family \in Families
        /\ doc = <<NewNode(0)>>
        /\ anim = <<Loading>>
        /\ heap = b.heap
        /\ stack = <<NewFrame(1, b.addr)>>
        /\ exc = FALSE
        /\ outcome = "running"
        /\ policy \in Policies
        /\ calls = 0
        /\ faults = 0

\* one iteration of the loop over the <source> children
LoadSource ==
    /\ Running
    /\ Top.stage = "sources"
    /\ Elements < Alphabet(family).elements
    /\ \E o \in Alphabet(family).sources :
        LET n == Top.node
            k == Len(doc[n].sources) + 1
        IN  /\ doc' = [doc EXCEPT ![n].sources = Append(@, o)]
            /\ IF o.ok
               THEN /\ heap' = [heap EXCEPT ![Top.sourcebyid] =
                                    Declare(@, [id |-> o.id, ref |-> <<n, k>>])]
                    /\ UNCHANGED <<exc, faults>>
               ELSE /\ exc' = TRUE
                    /\ faults' = IF Len(stack) > 1 THEN faults + 1 ELSE faults
                    /\ UNCHANGED heap
    /\ UNCHANGED <<family, anim, stack, outcome, policy, calls>>

\* one iteration of the loop over the <sampler> children
LoadSampler ==
    /\ Running
    /\ Top.stage \in SamplerStages
    /\ Elements < Alphabet(family).elements
    /\ \E s \in Alphabet(family).samplers :
        LET n == Top.node
            k == Len(doc[n].samplers) + 1
            r == SamplerLoad(heap[Top.sourcebyid], s, <<n, k>>)
        IN  /\ doc' = [doc EXCEPT ![n].samplers = Append(@, [node |-> s, loaded |-> r.ok])]
            /\ IF r.ok
               THEN /\ stack' = SetTop([Top EXCEPT !.stage = "samplers",
                                                   !.samplers = Keep(@, r.val)])
                    /\ UNCHANGED <<exc, calls, faults>>
               ELSE /\ stack' = SetTop([Top EXCEPT !.stage = "samplers"])
                    /\ calls' = calls + 1
                    /\ faults' = faults + 1
                    /\ exc' = Reraises(policy)
    /\ UNCHANGED <<family, anim, heap, outcome, policy>>

\* one iteration of the loop over the <channel> children
LoadChannel ==
    /\ Running
    /\ Top.stage \in ChannelStages
    /\ Elements < Alphabet(family).elements
    /\ \E c \in Alphabet(family).channels :
        LET n == Top.node
            k == Len(doc[n].channels) + 1
            r == ChannelLoad(Top.samplers, c, <<n, k>>)
        IN  /\ doc' = [doc EXCEPT ![n].channels = Append(@, [node |-> c, loaded |-> r.ok])]
            /\ IF r.ok
               THEN /\ stack' = SetTop([Top EXCEPT !.stage = "channels",
                                                   !.channels = Append(@, r.val)])
                    /\ UNCHANGED <<exc, calls, faults>>
               ELSE /\ stack' = SetTop([Top EXCEPT !.stage = "channels"])
                    /\ calls' = calls + 1
                    /\ faults' = faults + 1
                    /\ exc' = Reraises(policy)
    /\ UNCHANGED <<family, anim, heap, outcome, policy>>

\* the loop over the nested <animation> children calls Animation.load
BeginChild ==
    /\ Running
    /\ Elements < Alphabet(family).elements
    /\ LET c == Len(doc) + 1
           b == Bind(heap, Top.sourcebyid)
       IN  /\ doc' = Append(doc, NewNode(Top.node))
           /\ anim' = Append(anim, Loading)
           /\ heap' = b.heap
           /\ stack' = Append(SetTop([Top EXCEPT !.stage = "children"]),
                              NewFrame(c, b.addr))
    /\ UNCHANGED <<family, exc, outcome, policy, calls, faults>>

\* the active Animation.load returns its Animation; the caller appends it
Return ==
    /\ Running
    /\ anim' = [anim EXCEPT ![Top.node] = Animation(Top)]
    /\ IF Len(stack) > 1
       THEN /\ stack' = [Pop EXCEPT ![Len(stack) - 1].children = Append(@, Top.node)]
            /\ UNCHANGED outcome
       ELSE /\ stack' = Pop
            /\ outcome' = "returned"
    /\ UNCHANGED <<family, doc, heap, exc, policy, calls, faults>>

\* a DaeError leaves the active Animation.load; the caller's except clause
\* hands it to handleError
Propagate ==
    /\ stack # <<>>
    /\ exc
    /\ anim' = [anim EXCEPT ![Top.node].status = "failed"]
    /\ stack' = Pop
    /\ IF Len(stack) > 1
       THEN /\ calls' = calls + 1
            /\ exc' = Reraises(policy)
            /\ heap' = AfterChildFailure(heap, Top.sourcebyid, Top.node)
            /\ UNCHANGED outcome
       ELSE /\ outcome' = "raised"
            /\ UNCHANGED <<calls, exc, heap>>
    /\ UNCHANGED <<family, doc, policy, faults>>

Next ==
    \/ LoadSource
    \/ LoadSampler
    \/ LoadChannel
    \/ BeginChild
    \/ Return
    \/ Propagate

Spec == Init /\ [][Next]_vars

\* ------------------------------------------------------------------------
\* Reading the document and the objects built from it
\* ------------------------------------------------------------------------
Nodes == 1..Len(doc)

RECURSIVE IsAncestor(_, _)
\* m is a strict ancestor of n
IsAncestor(m, n) ==
    /\ doc[n].parent # 0
    /\ (doc[n].parent = m \/ IsAncestor(m, doc[n].parent))

OnStack(n) == \E i \in 1..Len(stack) : stack[i].node = n

FrameOf(n) == stack[CHOOSE i \in 1..Len(stack) : stack[i].node = n]

IsReturned(n) == anim[n].status = "returned"

\* a <source> declaration is named <<node, index>>; the identifier of its Source
DeclId(d) == doc[d[1]].sources[d[2]].id

\* d was loaded before e
Before(d, e) == d[1] < e[1] \/ (d[1] = e[1] /\ d[2] < e[2])

\* nodes are numbered as their loads start, and a node loads its sources
\* first: the declarations whose Source is loaded when node n loads its
\* samplers are those of the nodes up to n
DeclaredBy(n) ==
    UNION {{<<m, k>> : k \in {j \in 1..Len(doc[m].sources) : doc[m].sources[j].ok}} :
              m \in 1..n}

\* the <source> declarations whose Source was loaded so far
Declared == DeclaredBy(Len(doc))

\* the last of the declarations in D with identifier x
LastOf(D, x) ==
    LET X == {d \in D : DeclId(d) = x}
    IN  CHOOSE d \in X : \A e \in X : e = d \/ Before(e, d)

\* the document says input i resolves in node n
InputResolves(i, n) ==
    /\ ~Falsy(i.semantic)
    /\ ~Falsy(i.source)
    /\ \E m \in 1..n :
          \E k \in 1..Len(doc[m].sources) :
              doc[m].sources[k].ok /\ doc[m].sources[k].id = Strip(i.source[1])

\* the k-th <sampler> of node n has no faulty input
SamplerGood(n, k) ==
    \A j \in 1..Len(doc[n].samplers[k].node.inputs) :
        InputResolves(doc[n].samplers[k].node.inputs[j], n)

SamplerId(n, k) == IdOrEmpty(doc[n].samplers[k].node.id)

SamplerIndices(n) == 1..Len(doc[n].samplers)

\* the good <sampler> nodes of n that no later good one with their id replaces
SamplerKept(n, k) ==
    /\ SamplerGood(n, k)
    /\ \A j \in SamplerIndices(n) :
        (j > k /\ SamplerGood(n, j)) => SamplerId(n, j) # SamplerId(n, k)

\* identities of the Sampler objects in the samplers of Animation n
SamplerRefs(n) == {anim[n].samplers[i].ref : i \in 1..Len(anim[n].samplers)}

ChannelIndices(n) == 1..Len(doc[n].channels)

\* the document says the k-th <channel> of node n resolves
ChannelGood(n, k) ==
    LET c == doc[n].channels[k].node
    IN  /\ ~Falsy(c.source)
        /\ ~Falsy(c.target)
        /\ \E j \in SamplerIndices(n) :
              SamplerGood(n, j) /\ SamplerId(n, j) = Strip(c.source[1])

ChannelRefs(n) == {anim[n].channels[i].ref : i \in 1..Len(anim[n].channels)}

RangeOf(s) == {s[i] : i \in 1..Len(s)}

\* the children of node n as its caller holds them
ChildrenOf(n) ==
    IF OnStack(n) THEN RangeOf(FrameOf(n).children) ELSE RangeOf(anim[n].children)

Continues == policy = "continue"

\* a node whose Animation.load is active or has returned holds a scope
HasScope(n) == OnStack(n) \/ IsReturned(n)

\* the mapping that is the sourceById of node n
ScopeOf(n) ==
    heap[IF OnStack(n) THEN FrameOf(n).sourcebyid ELSE anim[n].sourceById]

\* the Sampler objects of node n, in its frame or in its Animation
SamplersHeld(n) ==
    IF OnStack(n) THEN Values(FrameOf(n).samplers) ELSE anim[n].samplers

\* the declarations of node n and of its strict ancestors
DeclaredAbove(n) == {d \in Declared : d[1] = n \/ IsAncestor(d[1], n)}

IdsOf(D) == {DeclId(d) : d \in D}

\* the declarations of node n itself
OwnDeclared(n) ==
    {<<n, k>> : k \in {j \in 1..Len(doc[n].sources) : doc[n].sources[j].ok}}

\* nothing read so far made a loader raise
NoFaultInDocument ==
    \A n \in Nodes :
        /\ \A k \in 1..Len(doc[n].sources) : doc[n].sources[k].ok
        /\ \A k \in SamplerIndices(n) : doc[n].samplers[k].loaded
        /\ \A k \in ChannelIndices(n) : doc[n].channels[k].loaded

\* the units skipped so far: <sampler> and <channel> nodes that did not
\* load, nested <animation> nodes whose load raised
SkippedSamplers ==
    UNION {{<<n, k>> : k \in {j \in SamplerIndices(n) : ~doc[n].samplers[j].loaded}} :
              n \in Nodes}

SkippedChannels ==
    UNION {{<<n, k>> : k \in {j \in ChannelIndices(n) : ~doc[n].channels[j].loaded}} :
              n \in Nodes}

SkippedChildren == {n \in Nodes : anim[n].status = "failed" /\ doc[n].parent # 0}

\* ------------------------------------------------------------------------
\* C1  Referential consistency: in every Animation that Animation.load has
\* returned, at any depth, the source of each Channel is a Sampler object
\* that is a member of that Animation's samplers, also when sampler nodes
\* share an identifier or have none.
\* ------------------------------------------------------------------------
ReferentialConsistency ==
    \A n \in Nodes :
        IsReturned(n) =>
            \A i \in 1..Len(anim[n].channels) :
                \E j \in 1..Len(anim[n].samplers) :
                    anim[n].samplers[j] = anim[n].channels[i].source

\* a nested Animation returned with a channel bound to a sampler whose
\* identifier two loaded sampler nodes share
ReferentialConsistencyWitness ==
    \E n \in Nodes :
        /\ IsReturned(n)
        /\ doc[n].parent # 0
        /\ anim[n].channels # <<>>
        /\ \E j, k \in SamplerIndices(n) :
              /\ j < k
              /\ doc[n].samplers[j].loaded
              /\ doc[n].samplers[k].loaded
              /\ SamplerId(n, j) = SamplerId(n, k)
              /\ anim[n].channels[1].source.id = SamplerId(n, k)

\* ------------------------------------------------------------------------
\* C3  Sampler fault isolation, as claimed: with a handler that continues,
\* a sampler node with a faulty input leaves no Sampler, every sampler node
\* without one is in the Animation's samplers, and the Animation is
\* returned.
\* ------------------------------------------------------------------------
SamplerIsolationAsClaimed ==
    \A n \in Nodes :
        (Continues /\ IsReturned(n)) =>
            \A j \in SamplerIndices(n) :
                ~SamplerGood(n, j) =>
                    /\ <<n, j>> \notin SamplerRefs(n)
                    /\ \A k \in SamplerIndices(n) :
                          SamplerGood(n, k) => <<n, k>> \in SamplerRefs(n)

\* C3 as amended: a sampler node without a faulty input is in the
\* Animation's samplers unless a later such node of the same Animation has
\* the same identifier, which then takes its place; the Sampler kept holds
\* one Input per <input> of its node; a node that has loaded a sampler is
\* not failed, and is returned once the load is over.
SamplerIsolation ==
    \A n \in Nodes :
        Continues =>
            /\ IsReturned(n) =>
                /\ SamplerRefs(n) = {<<n, k>> : k \in {j \in SamplerIndices(n) : SamplerKept(n, j)}}
                /\ \A i \in 1..Len(anim[n].samplers) :
                      LET s == anim[n].samplers[i]
                      IN  /\ Len(s.inputs) = Len(doc[n].samplers[s.ref[2]].node.inputs)
                          /\ s.id = SamplerId(n, s.ref[2])
            /\ doc[n].samplers # <<>> =>
                /\ anim[n].status # "failed"
                /\ stack = <<>> => IsReturned(n)

\* an Animation returned with a faulty sampler node skipped and a good one
\* kept
SamplerIsolationWitness ==
    \E n \in Nodes :
        /\ Continues
        /\ IsReturned(n)
        /\ \E j, k \in SamplerIndices(n) :
              /\ ~SamplerGood(n, j)
              /\ Len(doc[n].samplers[j].node.inputs) = 2
              /\ SamplerGood(n, k)
              /\ <<n, k>> \in SamplerRefs(n)
              /\ <<n, j>> \notin SamplerRefs(n)

\* ------------------------------------------------------------------------
\* C4  Channel fault isolation: with a handler that continues, a channel
\* that does not resolve to a loaded sampler of its Animation is the only
\* unit left out.  The Animation is returned with exactly its resolving
\* channels, each bound to the sampler kept under its identifier, with its
\* kept samplers and its returned children, and a nested Animation is
\* among its parent's children.
\* ------------------------------------------------------------------------
ChannelIsolation ==
    \A n \in Nodes :
        Continues =>
            /\ IsReturned(n) =>
                /\ ChannelRefs(n) = {<<n, k>> : k \in {j \in ChannelIndices(n) : ChannelGood(n, j)}}
                /\ \A i \in 1..Len(anim[n].channels) :
                      LET c == anim[n].channels[i]
                      IN  /\ c.source.id = Strip(doc[n].channels[c.ref[2]].node.source[1])
                          /\ c.source.ref \in SamplerRefs(n)
                          /\ c.target = doc[n].channels[c.ref[2]].node.target[1]
                /\ \A k \in SamplerIndices(n) :
                      SamplerKept(n, k) => <<n, k>> \in SamplerRefs(n)
                /\ RangeOf(anim[n].children) =
                      {c \in Nodes : doc[c].parent = n /\ IsReturned(c)}
                /\ doc[n].parent # 0 => n \in ChildrenOf(doc[n].parent)
            /\ doc[n].channels # <<>> =>
                /\ anim[n].status # "failed"
                /\ stack = <<>> => IsReturned(n)

\* a nested Animation, in its parent's children, whose channel names a
\* sampler that failed to load
ChannelIsolationWitness ==
    \E n \in Nodes :
        /\ Continues
        /\ IsReturned(n)
        /\ doc[n].parent # 0
        /\ n \in ChildrenOf(doc[n].parent)
        /\ \E k \in ChannelIndices(n), j \in SamplerIndices(n) :
              /\ ~ChannelGood(n, k)
              /\ ~Falsy(doc[n].channels[k].node.source)
              /\ ~Falsy(doc[n].channels[k].node.target)
              /\ ~SamplerGood(n, j)
              /\ SamplerId(n, j) = Strip(doc[n].channels[k].node.source[1])
              /\ <<n, k>> \notin ChannelRefs(n)

\* ------------------------------------------------------------------------
\* C5  The handler is called once per recoverable fault: when the load is
\* over, whether the handler continued or re-raised, the number of calls of
\* the handler is the number of errors raised inside a try block.
\* ------------------------------------------------------------------------
OneCallPerFault == outcome # "running" => calls = faults

\* ------------------------------------------------------------------------
\* C2  Scope monotonicity, as claimed: the identifiers in the scope of a
\* returned Animation are exactly those declared by itself and its strict
\* ancestors.
\* ------------------------------------------------------------------------
ScopeIsOwnChainAsClaimed ==
    \A n \in Nodes :
        IsReturned(n) => Keys(ScopeOf(n)) = IdsOf(DeclaredAbove(n))

\* C2 as amended: the scope of a returned Animation holds every identifier
\* declared by itself and its strict ancestors, and besides them every
\* identifier declared so far anywhere else in the tree (siblings, their
\* descendants, its own descendants): all Animations hold the one mapping.
ScopeIsWholeTree ==
    LET all == IdsOf(Declared)
    IN  \A n \in Nodes :
            IsReturned(n) =>
                /\ IdsOf(DeclaredAbove(n)) \subseteq Keys(ScopeOf(n))
                /\ Keys(ScopeOf(n)) = all

\* a returned Animation whose scope holds an identifier that only a later
\* sibling's subtree declares
ScopeIsWholeTreeWitness ==
    \E n \in Nodes :
        /\ IsReturned(n)
        /\ \E d \in Declared :
              /\ d[1] > n
              /\ ~IsAncestor(n, d[1])
              /\ DeclId(d) \notin IdsOf(DeclaredAbove(n))
              /\ DeclId(d) \in Keys(ScopeOf(n))

\* ------------------------------------------------------------------------
\* C6  First writer wins, as claimed: an identifier stays bound to the
\* source of the first Animation that declared it.
\* ------------------------------------------------------------------------
FirstWriterWinsAsClaimed ==
    \A n \in Nodes :
        HasScope(n) =>
            \A x \in Keys(ScopeOf(n)) :
                \A d \in Declared :
                    DeclId(d) = x => Get(ScopeOf(n), x).ref[1] <= d[1]

\* C6 as amended: the last writer wins along the ancestor chain too.  When
\* an Animation declares a source whose identifier is already bound in the
\* scope it inherited, the new source replaces the binding: an identifier
\* maps to the source declared last in load order.
LastWriterWins ==
    LET D == Declared
    IN  \A n \in Nodes :
            HasScope(n) =>
                \A x \in Keys(ScopeOf(n)) :
                    Get(ScopeOf(n), x).ref = LastOf(D, x)

\* an identifier declared by an Animation and again by a descendant, bound
\* to the descendant's source in the ancestor's scope
LastWriterWinsWitness ==
    \E n \in Nodes :
        /\ IsReturned(n)
        /\ \E d, e \in Declared :
              /\ d[1] = n
              /\ IsAncestor(n, e[1])
              /\ DeclId(d) = DeclId(e)
              /\ Get(ScopeOf(n), DeclId(d)).ref = e

\* ------------------------------------------------------------------------
\* C7  Last write wins within one Animation: two <source> declarations of
\* one Animation that share an identifier raise and report no error, the
\* scope holds one entry for the identifier, the entry is the later
\* declaration's source, and a sampler of that Animation whose input names
\* the identifier is bound to the later declaration's source.
\* ------------------------------------------------------------------------
LastWriteWinsWithin ==
    /\ NoFaultInDocument =>
          /\ calls = 0
          /\ ~exc
          /\ \A n \in Nodes : anim[n].status # "failed"
    /\ \A a \in 1..Len(heap) :
          \A x \in Keys(heap[a]) :
              Cardinality({i \in 1..Len(heap[a]) : heap[a][i].key = x}) = 1
    /\ \A n \in Nodes :
          \* before any child of n is loaded
          (OnStack(n) /\ n = Len(doc)) =>
              \A x \in IdsOf(OwnDeclared(n)) :
                  Get(ScopeOf(n), x).ref = LastOf(OwnDeclared(n), x)
    /\ \A n \in Nodes :
          \A i \in 1..Len(SamplersHeld(n)) :
              \A j \in 1..Len(SamplersHeld(n)[i].inputs) :
                  LET src == SamplersHeld(n)[i].inputs[j].source
                  IN  src.id \in IdsOf(OwnDeclared(n)) =>
                          src.ref = LastOf(OwnDeclared(n), src.id)

\* a returned Animation with two declarations of one identifier and a
\* sampler bound to the second, no error raised or reported
LastWriteWinsWithinWitness ==
    \E n \in Nodes :
        /\ IsReturned(n)
        /\ calls = 0
        /\ <<n, 1>> \in Declared
        /\ <<n, 2>> \in Declared
        /\ DeclId(<<n, 1>>) = DeclId(<<n, 2>>)
        /\ Len(anim[n].samplers) = 1
        /\ Len(anim[n].samplers[1].inputs) = 1
        /\ anim[n].samplers[1].inputs[1].source.ref = <<n, 2>>

\* ------------------------------------------------------------------------
\* C8  Immutability, as claimed: once an Animation is returned, no later
\* step changes its fields or the contents of its sourceById.
\* ------------------------------------------------------------------------
FrozenAsClaimed ==
    [][\A n \in Nodes :
          IsReturned(n) =>
              /\ anim'[n] = anim[n]
              /\ heap'[anim[n].sourceById] = heap[anim[n].sourceById]]_vars

\* C8 as amended: once an Animation is returned, no later step changes its
\* samplers, channels or children or which mapping its sourceById is, and
\* no identifier leaves that mapping; but the mapping is the one shared by
\* the tree, so later branches add identifiers to it and rebind those it
\* has.
Frozen ==
    [][\A n \in Nodes :
          IsReturned(n) =>
              /\ anim'[n] = anim[n]
              /\ Keys(heap[anim[n].sourceById]) \subseteq Keys(heap'[anim[n].sourceById])]_vars

\* a returned Animation whose sourceById holds a source that a branch
\* loaded after its return declared
FrozenWitness ==
    \E n \in Nodes :
        /\ IsReturned(n)
        /\ \E d \in Declared :
              /\ d[1] > n
              /\ ~IsAncestor(n, d[1])
              /\ Get(ScopeOf(n), DeclId(d)).ref = d

\* ------------------------------------------------------------------------
\* C9  Visibility follows load order: a sampler of node n loads exactly
\* when each of its inputs is well formed and names an identifier declared
\* by a node whose load started no later than that of n (n itself, an
\* ancestor, or a node of an earlier branch) - never one declared only by a
\* later sibling's subtree or by a descendant of n; each input is bound to
\* the last such declaration; and with a handler that continues every
\* sampler that does not load is reported, as is every other skipped unit.
\* ------------------------------------------------------------------------
LoadOrderVisibility ==
    /\ \A n \in Nodes :
          \A k \in SamplerIndices(n) :
              doc[n].samplers[k].loaded <=> SamplerGood(n, k)
    /\ \A n \in Nodes :
          \A i \in 1..Len(SamplersHeld(n)) :
              LET s == SamplersHeld(n)[i]
                  node == doc[n].samplers[s.ref[2]].node
              IN  /\ s.ref[1] = n
                  /\ \A j \in 1..Len(s.inputs) :
                        s.inputs[j].source.ref =
                            LastOf(DeclaredBy(n), Strip(node.inputs[j].source[1]))
    /\ Continues =>
          calls = Cardinality(SkippedSamplers) + Cardinality(SkippedChannels)
                      + Cardinality(SkippedChildren)

\* a sampler bound to a source that a descendant of an earlier sibling
\* declared
LoadOrderVisibilityWitness ==
    \E n \in Nodes :
        /\ IsReturned(n)
        /\ \E i \in 1..Len(anim[n].samplers) :
              \E j \in 1..Len(anim[n].samplers[i].inputs) :
                  LET d == anim[n].samplers[i].inputs[j].source.ref
                  IN  /\ d[1] < n
                      /\ ~IsAncestor(d[1], n)
                      /\ doc[d[1]].parent # doc[n].parent

\* ------------------------------------------------------------------------
\* C10  Skipping a failed nested Animation does not undo its scope
\* extension: with a handler that continues, a nested Animation that failed
\* is not among its parent's children, yet each source it had declared is
\* still in the scope of every Animation, bound to it unless declared again
\* since, and a sampler of a node loaded later whose inputs name only such
\* sources loads.
\* ------------------------------------------------------------------------
ScopeSurvivesFailure ==
    \A c \in Nodes :
        (Continues /\ anim[c].status = "failed" /\ doc[c].parent # 0) =>
            /\ c \notin ChildrenOf(doc[c].parent)
            /\ \A d \in OwnDeclared(c) :
                  \A n \in Nodes :
                      HasScope(n) =>
                          /\ DeclId(d) \in Keys(ScopeOf(n))
                          /\ (\A e \in Declared : DeclId(e) = DeclId(d) => ~Before(d, e))
                                => Get(ScopeOf(n), DeclId(d)).ref = d
            /\ \A m \in Nodes :
                  \A k \in SamplerIndices(m) :
                      LET ins == doc[m].samplers[k].node.inputs
                      IN  (/\ m > c
                           /\ \A j \in 1..Len(ins) :
                                 /\ ~Falsy(ins[j].semantic)
                                 /\ ~Falsy(ins[j].source)
                                 /\ Strip(ins[j].source[1]) \in IdsOf(OwnDeclared(c)))
                              => doc[m].samplers[k].loaded

\* a later sibling of a failed nested Animation returned with a sampler
\* bound to a source the failed one had declared
ScopeSurvivesFailureWitness ==
    \E c, m \in Nodes :
        /\ Continues
        /\ anim[c].status = "failed"
        /\ doc[c].parent # 0
        /\ doc[m].parent = doc[c].parent
        /\ m > c
        /\ IsReturned(m)
        /\ \E i \in 1..Len(anim[m].samplers) :
              \E j \in 1..Len(anim[m].samplers[i].inputs) :
                  anim[m].samplers[i].inputs[j].source.ref[1] = c

====
